---- MODULE Spec2Model ----
(***************************************************************************)
(* Model of main.py of the personal finance manager: the module values,    *)
(* the Transaction record (constructor, field reads, __repr__) and the     *)
(* categorize_transaction function.                                        *)
(*                                                                         *)
(* Amounts are Python floats.  The model keeps the amounts that are exact  *)
(* binary fractions with FracBits fractional bits: the integer n stands    *)
(* for the float n / Scale, which the float type represents exactly, so    *)
(* comparisons are exact and the ":.2f" conversion is the correctly        *)
(* rounded (round-half-to-even) two-decimal rendering of n / Scale.        *)
(***************************************************************************)
EXTENDS Integers, Sequences, FiniteSets, TLC

VARIABLES initial_balance, app_name, is_active, version,
          txn, supplied, ret, nRepr, nCat

vars == <<initial_balance, app_name, is_active, version,
          txn, supplied, ret, nRepr, nCat>>

moduleValues == <<initial_balance, app_name, is_active, version>>

(***************************************************************************)
(* Bounds of the model.                                                    *)
(***************************************************************************)
FracBits == 4

MaxCalls == 2

Window == 4

Scale == 2 ^ FracBits


(***************************************************************************)
(* The thresholds of categorize_transaction, in currency units.            *)
(***************************************************************************)
LargeThreshold == 1000

MediumThreshold == 100

(***************************************************************************)
(* Inputs.  Amounts lie around the points where the behaviour changes      *)
(* (-5000, 0, 100, 1000) and around 1234.5, Window ticks to either side,   *)
(* so exact values, ties and both directions of the two-decimal rounding   *)
(* occur.                                                                  *)
(***************************************************************************)
ExampleAmount == (2469 * Scale) \div 2

Centres == {-5000 * Scale, 0, MediumThreshold * Scale,
            LargeThreshold * Scale, ExampleAmount}

Amounts == UNION {(c - Window)..(c + Window) : c \in Centres}

Categories == {"Test", "Small Expense"}

Descriptions == {"desc", ""}

Dates == {"2024-01-01", "yesterday"}

NoTxn == [kind |-> "none"]

NoCall == [op |-> "none", arg |-> 0, val |-> ""]

Abs(n) == IF n < 0 THEN -n ELSE n

(***************************************************************************)
(* Variants of categorize_transaction with one plausible slip each: the    *)
(* size taken from the magnitude, an inclusive upper threshold, an         *)
(* inclusive lower threshold, an inverted sign test in the medium branch,  *)
(* a final branch without a default, and an inclusive sign test.           *)
(***************************************************************************)
categorize_by_magnitude(amount) ==
    IF Abs(amount) > LargeThreshold * Scale
    THEN (IF amount > 0 THEN "Large Income" ELSE "Major Expense")
    ELSE IF Abs(amount) > MediumThreshold * Scale
    THEN (IF amount > 0 THEN "Medium Income" ELSE "Major Expense")
    ELSE (IF amount > 0 THEN "Small Income" ELSE "Small Expense")

categorize_large_inclusive(amount) ==
    IF amount >= LargeThreshold * Scale
    THEN (IF amount > 0 THEN "Large Income" ELSE "Major Expense")
    ELSE IF amount > MediumThreshold * Scale
    THEN (IF amount > 0 THEN "Medium Income" ELSE "Major Expense")
    ELSE (IF amount > 0 THEN "Small Income" ELSE "Small Expense")

categorize_medium_inclusive(amount) ==
    IF amount > LargeThreshold * Scale
    THEN (IF amount > 0 THEN "Large Income" ELSE "Major Expense")
    ELSE IF amount >= MediumThreshold * Scale
    THEN (IF amount > 0 THEN "Medium Income" ELSE "Major Expense")
    ELSE (IF amount > 0 THEN "Small Income" ELSE "Small Expense")

categorize_medium_sign_flipped(amount) ==
    IF amount > LargeThreshold * Scale
    THEN (IF amount > 0 THEN "Large Income" ELSE "Major Expense")
    ELSE IF amount > MediumThreshold * Scale
    THEN (IF amount < 0 THEN "Medium Income" ELSE "Major Expense")
    ELSE (IF amount > 0 THEN "Small Income" ELSE "Small Expense")

categorize_no_default(amount) ==
    IF amount > LargeThreshold * Scale
    THEN (IF amount > 0 THEN "Large Income" ELSE "Major Expense")
    ELSE IF amount > MediumThreshold * Scale
    THEN (IF amount > 0 THEN "Medium Income" ELSE "Major Expense")
    ELSE (IF amount > 0 THEN "Small Income"
          ELSE IF amount < 0 THEN "Small Expense" ELSE "None")

categorize_nonneg(amount) ==
    IF amount > LargeThreshold * Scale
    THEN (IF amount >= 0 THEN "Large Income" ELSE "Major Expense")
    ELSE IF amount > MediumThreshold * Scale
    THEN (IF amount >= 0 THEN "Medium Income" ELSE "Major Expense")
    ELSE (IF amount >= 0 THEN "Small Income" ELSE "Small Expense")

(***************************************************************************)
(* categorize_transaction(amount), amount in ticks of 1 / Scale.           *)
(***************************************************************************)
categorize_transaction(amount) ==
    IF amount > LargeThreshold * Scale
    THEN (IF amount > 0 THEN "Large Income" ELSE "Major Expense")
    ELSE IF amount > MediumThreshold * Scale
    THEN (IF amount > 0 THEN "Medium Income" ELSE "Major Expense")
    ELSE (IF amount > 0 THEN "Small Income" ELSE "Small Expense")

(***************************************************************************)
(* Variant of __init__ that derives the category from the amount.          *)
(***************************************************************************)
TransactionAuto(amount, category, description, date) ==
    [kind |-> "Transaction", amount |-> amount,
     category |-> categorize_transaction(amount),
     description |-> description, date |-> date]

(***************************************************************************)
(* Transaction.__init__: the four arguments are stored as given.           *)
(***************************************************************************)
Transaction(amount, category, description, date) ==
    [kind |-> "Transaction", amount |-> amount, category |-> category,
     description |-> description, date |-> date]

(***************************************************************************)
(* Decimal digits and the ":.2f" conversion of the float amount / Scale.   *)
(***************************************************************************)
Digits == <<"0", "1", "2", "3", "4", "5", "6", "7", "8", "9">>

Digit(d) == Digits[d + 1]

RECURSIVE NatToStr(_)
NatToStr(n) ==
    IF n < 10 THEN Digit(n) ELSE NatToStr(n \div 10) \o Digit(n % 10)

(***************************************************************************)
(* Variant of the conversion that truncates instead of rounding.           *)
(***************************************************************************)
TruncatedCents(amount) == (100 * Abs(amount)) \div Scale

RoundedCents(amount) ==
    LET q == (100 * Abs(amount)) \div Scale
        r == (100 * Abs(amount)) % Scale
    IN  IF 2 * r > Scale \/ (2 * r = Scale /\ q % 2 = 1) THEN q + 1 ELSE q

Format2f(amount) ==
    LET cents == RoundedCents(amount)
    IN  (IF amount < 0 THEN "-" ELSE "")
        \o NatToStr(cents \div 100) \o "."
        \o Digit((cents % 100) \div 10) \o Digit(cents % 10)

(***************************************************************************)
(* Transaction.__repr__ of the record t.                                   *)
(***************************************************************************)
repr(t) ==
    t.date \o " - " \o t.category \o ": $" \o Format2f(t.amount)
    \o " (" \o t.description \o ")"

(***************************************************************************)
(* State after the module body has run: the four module values are set,    *)
(* no Transaction exists, nothing has been called.                         *)
(***************************************************************************)
Init ==
    /\ initial_balance = 0
    /\ app_name = "Personal Finance Manager"
    /\ is_active = TRUE
    /\ version = 1
    /\ txn = NoTxn
    /\ supplied = NoTxn
    /\ ret = NoCall
    /\ nRepr = 0
    /\ nCat = 0

(***************************************************************************)
(* t = Transaction(amount, category, description, date)                    *)
(***************************************************************************)
Construct ==
    \E amount \in Amounts, category \in Categories,
       description \in Descriptions, date \in Dates :
        /\ txn' = Transaction(amount, category, description, date)
        /\ supplied' = [kind |-> "Transaction", amount |-> amount,
                        category |-> category, description |-> description,
                        date |-> date]
        /\ ret' = [op |-> "__init__", arg |-> amount, val |-> ""]
        /\ nRepr' = 0
        /\ nCat' = 0
        /\ UNCHANGED moduleValues

(***************************************************************************)
(* (t.amount, t.category, t.description, t.date)                           *)
(***************************************************************************)
ReadFields ==
    /\ txn # NoTxn
    /\ ret' = [op |-> "read", arg |-> txn.amount,
               val |-> <<txn.amount, txn.category, txn.description, txn.date>>]
    /\ UNCHANGED <<moduleValues, txn, supplied, nRepr, nCat>>

(***************************************************************************)
(* repr(t)                                                                 *)
(***************************************************************************)
Repr ==
    /\ txn # NoTxn
    /\ ret' = [op |-> "__repr__", arg |-> txn.amount, val |-> repr(txn)]
    /\ nRepr' = IF nRepr < MaxCalls THEN nRepr + 1 ELSE nRepr
    /\ UNCHANGED <<moduleValues, txn, supplied, nCat>>

(***************************************************************************)
(* Variant of the call that stores the label in the record.                *)
(***************************************************************************)
CategorizeStoring ==
    /\ txn # NoTxn
    /\ ret' = [op |-> "categorize_transaction", arg |-> txn.amount,
               val |-> categorize_transaction(txn.amount)]
    /\ txn' = [txn EXCEPT !.category = categorize_transaction(txn.amount)]
    /\ nCat' = IF nCat < MaxCalls THEN nCat + 1 ELSE nCat
    /\ UNCHANGED <<moduleValues, supplied, nRepr>>

(***************************************************************************)
(* categorize_transaction(t.amount): the categorizer applied to the amount *)
(* of the record, which ranges over every amount of Amounts.               *)
(***************************************************************************)
Categorize ==
    /\ txn # NoTxn
    /\ ret' = [op |-> "categorize_transaction", arg |-> txn.amount,
               val |-> categorize_transaction(txn.amount)]
    /\ nCat' = IF nCat < MaxCalls THEN nCat + 1 ELSE nCat
    /\ UNCHANGED <<moduleValues, txn, supplied, nRepr>>

Next ==
    \/ Construct
    \/ ReadFields
    \/ Repr
    \/ Categorize

Spec == Init /\ [][Next]_vars

TypeOK ==
    /\ txn \in {NoTxn} \cup
         [kind : {"Transaction"}, amount : Amounts, category : Categories,
          description : Descriptions, date : Dates]
    /\ nRepr \in 0..MaxCalls
    /\ nCat \in 0..MaxCalls

(***************************************************************************)
(* Properties.                                                             *)
(***************************************************************************)
Categorized == ret.op = "categorize_transaction"

FiveLabels == {"Large Income", "Medium Income", "Small Income",
               "Small Expense", "Major Expense"}

IncomeLabels == {"Large Income", "Medium Income", "Small Income"}

Rank(label) ==
    CASE label = "Small Expense" -> 0
      [] label = "Small Income" -> 1
      [] label = "Medium Income" -> 2
      [] label = "Large Income" -> 3
      [] OTHER -> -1

InitialModuleValues == <<0, "Personal Finance Manager", TRUE, 1>>

\* C1: every amount <= 0, zero and large negative amounts such as -5000
\* included, is labelled "Small Expense" and never "Major Expense".
C1_NonPositiveIsSmallExpense ==
    (Categorized /\ ret.arg <= 0) => ret.val = "Small Expense"

C1_Witness ==
    Categorized /\ ret.arg = -5000 * Scale /\ ret.val = "Small Expense"

\* C2: every amount > 1000 is labelled "Large Income", and the amount 1000
\* itself is not.
C2_AboveLargeIsLargeIncome ==
    Categorized =>
        /\ ret.arg > LargeThreshold * Scale => ret.val = "Large Income"
        /\ ret.arg = LargeThreshold * Scale => ret.val # "Large Income"

C2_Witness ==
    Categorized /\ ret.arg = LargeThreshold * Scale + 1
                /\ ret.val = "Large Income"

\* C3: every amount with 100 < amount <= 1000 is labelled "Medium Income";
\* the amount 1000 is in the medium branch.
C3_MediumRangeIsMediumIncome ==
    (Categorized /\ ret.arg > MediumThreshold * Scale
                 /\ ret.arg <= LargeThreshold * Scale)
        => ret.val = "Medium Income"

C3_Witness ==
    Categorized /\ ret.arg = LargeThreshold * Scale
                /\ ret.val = "Medium Income"

\* C4: every amount with 0 < amount <= 100 is labelled "Small Income"; the
\* amount 100 passes neither threshold test.
C4_SmallRangeIsSmallIncome ==
    (Categorized /\ ret.arg > 0 /\ ret.arg <= MediumThreshold * Scale)
        => ret.val = "Small Income"

C4_Witness ==
    Categorized /\ ret.arg = MediumThreshold * Scale
                /\ ret.val = "Small Income"

\* C5: no amount is labelled "Major Expense": in both threshold branches
\* the amount is positive, so their else-arms are never taken.
C5_NeverMajorExpense ==
    Categorized => ret.val # "Major Expense"

C5_Witness ==
    /\ Categorized
    /\ ret.arg = ExampleAmount
    /\ ret.val \in IncomeLabels
    /\ nCat = MaxCalls

\* C6: every amount, positive, zero or negative, gets one of the five
\* labels; no call ends without a label.
C6_TotalOverAmounts ==
    Categorized => ret.val \in FiveLabels

C6_Witness ==
    Categorized /\ ret.arg = 0 /\ ret.val \in FiveLabels

\* C7: construction accepts any four values and stores them unmodified; the
\* fields read back are the values supplied, and the category is the
\* caller's, not the categorizer's.
C7_FieldsAreTheSuppliedValues ==
    /\ ENABLED Construct
    /\ ret.op = "__init__" => txn = supplied
    /\ ret.op = "read" =>
           ret.val = <<supplied.amount, supplied.category,
                       supplied.description, supplied.date>>

C7_Witness ==
    /\ ret.op = "read"
    /\ ret.val[2] = "Test"
    /\ ret.val[2] # categorize_transaction(ret.val[1])
    /\ ret.val[3] = ""

\* C8: the display form is "{date} - {category}: ${amount} ({description})"
\* where the amount is written with exactly two decimals, as the cent
\* value nearest to the stored amount (the even one at a tie); 1234.5 / "Test" / "desc" /
\* "2024-01-01" renders "2024-01-01 - Test: $1234.50 (desc)".
C8_DisplayForm ==
    ret.op = "__repr__" =>
        LET a == txn.amount
            lo == (100 * Abs(a)) \div Scale
        IN  /\ \E c \in {lo, lo + 1} :
                 /\ 2 * Abs(c * Scale - 100 * Abs(a)) <= Scale
                 /\ 2 * Abs(c * Scale - 100 * Abs(a)) = Scale => c % 2 = 0
                 /\ ret.val = txn.date \o " - " \o txn.category \o ": $"
                        \o (IF a < 0 THEN "-" ELSE "")
                        \o NatToStr(c \div 100) \o "."
                        \o Digit((c % 100) \div 10) \o Digit(c % 10)
                        \o " (" \o txn.description \o ")"
            /\ (/\ a = ExampleAmount
                /\ txn.category = "Test"
                /\ txn.description = "desc"
                /\ txn.date = "2024-01-01")
                   => ret.val = "2024-01-01 - Test: $1234.50 (desc)"

C8_Witness ==
    /\ ret.op = "__repr__"
    /\ txn.amount = ExampleAmount
    /\ ret.val = "2024-01-01 - Test: $1234.50 (desc)"

\* C9: once a Transaction is constructed, renderings and categorizer calls
\* in any number and order leave its four fields as constructed, and no
\* step changes initial_balance, app_name, is_active or version.
C9_NothingChangesARecord ==
    [][/\ moduleValues' = moduleValues
       /\ (txn # NoTxn /\ supplied' = supplied) => txn' = txn]_vars

C9_Witness ==
    /\ nRepr >= 2
    /\ nCat >= 2
    /\ txn = supplied
    /\ (100 * txn.amount) % Scale # 0
    /\ moduleValues = InitialModuleValues

\* C10: the label is an Income label exactly when the amount is positive,
\* and a larger amount never gets a lower label in the order
\* Small Expense < Small Income < Medium Income < Large Income.
C10_SignAndMonotone ==
    Categorized =>
        /\ (ret.val \in IncomeLabels) <=> (ret.arg > 0)
        /\ \A b \in Amounts :
               b >= ret.arg =>
                   /\ Rank(categorize_transaction(b)) >= Rank(ret.val)
                   /\ Rank(ret.val) >= 0

C10_Witness ==
    /\ Categorized
    /\ ret.arg < 0
    /\ ret.val = "Small Expense"
    /\ \E b \in Amounts : b > ret.arg /\ Rank(categorize_transaction(b)) = 3
====
